---- MODULE Spec2Model ----
(***************************************************************************)
(* The chunk-output cache of an R Markdown notebook, as implemented in     *)
(* src/cpp/session/modules/rmarkdown/SessionRmdNotebook.cpp.               *)
(*                                                                         *)
(* State: the cache folders on disk (sidecar chunks.json, <id>.html,       *)
(* <id>_files/, lib/), the source database's docId -> path registry, the   *)
(* client event queue and the delayed-work queue.  One action per handler. *)
(*                                                                         *)
(* Environment assumptions: paths are already alias-resolved; the file     *)
(* system honours removeIfExists, move and copy (the code only logs their  *)
(* errors); ensureDirectory, the render backend and the sidecar write may  *)
(* fail, which the handlers report to their caller.                        *)
(***************************************************************************)
EXTENDS Naturals, Sequences, FiniteSets, TLC

VARIABLES
    sourceDb,   \* source_database: docId -> path of the open document, or NotOpen
    disk,       \* cache folder -> its contents
    events,     \* module_context::enqueClientEvent: the client event queue
    delayed,    \* module_context::scheduleDelayedWork: pending replays, in order
    writer,     \* the sidecar write in progress (temp file written, not yet renamed)
    last,       \* the last handler call: its name, arguments, result, disk before it
    ops         \* number of handler calls so far

vars == <<sourceDb, disk, events, delayed, writer, last, ops>>

---------------------------------------------------------------------------
(* Bounds *)

\* Longest chunk definition sequence passed to setChunkDefs.
MaxDefs == 2

\* Handler calls in one explored session.
MaxOps == 3

---------------------------------------------------------------------------
(* Program constants *)

kChunkDefs == "chunk_definitions"

kChunkLibDir == "lib"

kChunkOutputPath == "chunk_output"

---------------------------------------------------------------------------
(* Data *)

DocIds == {"d1", "d2"}

\* Chunk ids in their std::string order.
IdNames == <<"a", "b", "c">>

ChunkIds == {IdNames[i] : i \in 1..Len(IdNames)}

Rank(id) == CHOOSE i \in 1..Len(IdNames) : IdNames[i] = id

\* A document path; the empty string is the path of an unsaved document.
EmptyPath == [parent |-> "", stem |-> "", ext |-> ""]

MkPath(parent, stem, ext) == [parent |-> parent, stem |-> stem, ext |-> ext]

SavedPaths ==
    { MkPath("/p", "foo", ".Rmd"), MkPath("/p", "foo", ".md"),
      MkPath("/p", "bar", ".Rmd") }

Paths == SavedPaths \cup {EmptyPath}

NotOpen == [parent |-> "", stem |-> "", ext |-> "not-open"]

\* Error values.
Success == "Success"

---------------------------------------------------------------------------
(* JSON values (core/json): every value is a record with a type tag t *)

JsonNull == [t |-> "null"]

JsonString(s) == [t |-> "string", v |-> s]

JsonArray(seq) == [t |-> "array", arr |-> seq]

\* An object with one member.
JsonObject1(key, val) == [t |-> "object", key |-> key, val |-> val]

\* A chunk definition: an object with a string chunk_id and further fields.
ChunkDef(id, row) == [t |-> "object", chunk_id |-> JsonString(id), row |-> row]

\* Malformed entries: an object without chunk_id and a value that is no object.
DefNoId == [t |-> "object", row |-> "1"]

DefNotObject == JsonString("junk")

DefEntries ==
    {ChunkDef(id, "1") : id \in ChunkIds} \cup {DefNoId, DefNotObject}

RECURSIVE SeqsUpTo(_, _)
SeqsUpTo(S, n) ==
    IF n = 0 THEN {<<>>}
    ELSE LET shorter == SeqsUpTo(S, n - 1)
         IN  shorter \cup {Append(s, e) : s \in {q \in shorter : Len(q) = n - 1}, e \in S}

DefSeqs == SeqsUpTo(DefEntries, MaxDefs)

\* The definition sequences the documents of a session are given.
DocChunkIds == {"a", "b"}

DocDefSeqs == {<<>>, <<ChunkDef("a", "1")>>, <<ChunkDef("a", "1"), ChunkDef("b", "1")>>}

---------------------------------------------------------------------------
(* Files *)

NoFile == [t |-> "nofile"]

\* json::write: the text of a JSON value; json::parse gives the value back.
JsonWrite(value) == [t |-> "text", parses |-> TRUE, value |-> value]

\* Text that json::parse rejects (empty or cut-off included).
Garbage == [t |-> "text", parses |-> FALSE, value |-> JsonNull]

NoDir == [exists |-> FALSE, chunks_json |-> NoFile, html |-> {}, files |-> {}, lib |-> FALSE]

EmptyDir == [NoDir EXCEPT !.exists = TRUE]

---------------------------------------------------------------------------
(* Path resolver *)

\* The folder <dir>/<stem>.Rnb.cached.
chunkCacheFolder(docPath, docId) ==
    IF docPath = EmptyPath
    THEN [dir |-> "scratch/unsaved-notebooks", stem |-> docId, suffix |-> ".Rnb.cached"]
    ELSE [dir |-> docPath.parent, stem |-> docPath.stem, suffix |-> ".Rnb.cached"]

Folders == {chunkCacheFolder(p, d) : p \in Paths, d \in DocIds}

\* The sidecar of a document: the file chunks.json of its cache folder.
chunkDefinitionsPath(dsk, docPath, docId) ==
    dsk[chunkCacheFolder(docPath, docId)].chunks_json

\* Whether <chunkId>.html exists in the document's cache folder.
chunkOutputPath(dsk, docPath, docId, chunkId) ==
    chunkId \in dsk[chunkCacheFolder(docPath, docId)].html

\* FilePath::ensureDirectory, when it succeeds.
ensureDirectory(dsk, folder) ==
    IF dsk[folder].exists THEN dsk ELSE [dsk EXCEPT ![folder] = EmptyDir]

---------------------------------------------------------------------------
(* Definition store: reading *)

\* getChunkDefs on the sidecar file defs; the caller's value stays JSON null
\* unless the definitions are read.
readChunkDefs(defs) ==
    IF defs = NoFile
    THEN [error |-> Success, defs |-> JsonNull]
    ELSE IF ~defs.parses \/ defs.value.t # "object"
    THEN [error |-> "ParseError", defs |-> JsonNull]
    ELSE IF defs.value.key # kChunkDefs
    THEN [error |-> "ParamMissing", defs |-> JsonNull]
    ELSE IF defs.value.val.t # "array"
    THEN [error |-> "ParamTypeMismatch", defs |-> JsonNull]
    ELSE [error |-> Success, defs |-> defs.value.val]

getChunkDefs(dsk, docPath, docId) ==
    readChunkDefs(chunkDefinitionsPath(dsk, docPath, docId))

---------------------------------------------------------------------------
(* Reconciler *)

RECURSIVE extractChunkIds(_)
extractChunkIds(chunkOutputs) ==
    IF chunkOutputs = <<>> THEN <<>>
    ELSE LET chunkOutput == Head(chunkOutputs)
             rest == extractChunkIds(Tail(chunkOutputs))
         IN  IF chunkOutput.t # "object" THEN rest
             ELSE IF "chunk_id" \in DOMAIN chunkOutput /\ chunkOutput.chunk_id.t = "string"
             THEN <<chunkOutput.chunk_id.v>> \o rest
             ELSE rest

\* std::sort on a vector of chunk ids.
RECURSIVE Insert(_, _)
Insert(id, sorted) ==
    IF sorted = <<>> THEN <<id>>
    ELSE IF Rank(id) <= Rank(Head(sorted)) THEN <<id>> \o sorted
    ELSE <<Head(sorted)>> \o Insert(id, Tail(sorted))

RECURSIVE Sort(_)
Sort(ids) == IF ids = <<>> THEN <<>> ELSE Insert(Head(ids), Sort(Tail(ids)))

\* std::set_difference on two sorted ranges: an element found m times in the
\* first and n times in the second is copied max(m - n, 0) times.
RECURSIVE SetDifference(_, _)
SetDifference(first, second) ==
    IF first = <<>> THEN <<>>
    ELSE IF second = <<>> THEN first
    ELSE IF Rank(Head(first)) < Rank(Head(second))
    THEN <<Head(first)>> \o SetDifference(Tail(first), second)
    ELSE IF Rank(Head(second)) < Rank(Head(first))
    THEN SetDifference(first, Tail(second))
    ELSE SetDifference(Tail(first), Tail(second))

Range(seq) == {seq[i] : i \in 1..Len(seq)}

staleIdsAllOld(oldDefs, newDefs) == Sort(extractChunkIds(oldDefs))

staleIdsOf(oldDefs, newDefs) ==
    SetDifference(Sort(extractChunkIds(oldDefs)), Sort(extractChunkIds(newDefs)))

removeStaleAndLib(dir, staleIds) ==
    [dir EXCEPT !.html = @ \ Range(staleIds), !.files = @ \ Range(staleIds),
                !.lib = (staleIds = <<>>) /\ @]

removeStaleFilesOnly(dir, staleIds) == [dir EXCEPT !.files = @ \ Range(staleIds)]

\* Removes <staleId>.html and <staleId>_files of every stale id.
RECURSIVE removeStale(_, _)
removeStale(dir, staleIds) ==
    IF staleIds = <<>> THEN dir
    ELSE removeStale([dir EXCEPT !.html = @ \ {Head(staleIds)},
                                 !.files = @ \ {Head(staleIds)}],
                     Tail(staleIds))

cleanChunks(dsk, cacheDir, oldDefs, newDefs) ==
    [dsk EXCEPT ![cacheDir] = removeStale(@, staleIdsOf(oldDefs, newDefs))]

---------------------------------------------------------------------------
(* Definition store: writing *)

\* writeStringToFile (core/FileSerializer) in two steps: the text goes to a
\* temporary file, the target untouched; the temporary file is then renamed
\* over the target.
writeBeginInPlace(dsk, folder, text) ==
    [disk |-> [dsk EXCEPT ![folder].chunks_json = Garbage], temp |-> text]

writeBegin(dsk, folder, text) == [disk |-> dsk, temp |-> text]

writeEnd(dsk, folder, temp) == [dsk EXCEPT ![folder].chunks_json = temp]

writeStringToFile(dsk, folder, text, io) ==
    LET begun == writeBegin(dsk, folder, text)
    IN  IF io = "write_fails"
        THEN [disk |-> begun.disk, error |-> "IOError"]
        ELSE [disk |-> writeEnd(begun.disk, folder, begun.temp), error |-> Success]

sidecarTextBare(newDefs) == JsonWrite(JsonArray(newDefs))

\* The text setChunkDefs writes: the definitions wrapped in an object.
sidecarText(newDefs) == JsonWrite(JsonObject1(kChunkDefs, JsonArray(newDefs)))

setChunkDefsCleanOnError(dsk, docPath, docId, newDefs) ==
    LET folder == chunkCacheFolder(docPath, docId)
        made == ensureDirectory(dsk, folder)
        old == getChunkDefs(made, docPath, docId)
    IN  IF old.error # Success
        THEN [made EXCEPT ![folder].html = {}, ![folder].files = {}]
        ELSE IF old.defs.t = "array"
        THEN cleanChunks(made, folder, old.defs.arr, newDefs)
        ELSE made

\* setChunkDefs up to the write: the folder is ensured, the old set loaded
\* and, when it loaded, the stale chunks cleaned.
setChunkDefsClean(dsk, docPath, docId, newDefs) ==
    LET folder == chunkCacheFolder(docPath, docId)
        made == ensureDirectory(dsk, folder)
        old == getChunkDefs(made, docPath, docId)
    IN  IF old.error # Success THEN made
        ELSE IF old.defs.t = "array"
        THEN cleanChunks(made, folder, old.defs.arr, newDefs)
        ELSE made

\* io: what the file system does ("ok", "mkdir_fails", "write_fails").
setChunkDefs(dsk, docPath, docId, newDefs, io) ==
    LET folder == chunkCacheFolder(docPath, docId)
    IN  IF ~dsk[folder].exists /\ io = "mkdir_fails"
        THEN [disk |-> dsk, error |-> "IOError"]
        ELSE writeStringToFile(setChunkDefsClean(dsk, docPath, docId, newDefs),
                               folder, sidecarText(newDefs), io)

---------------------------------------------------------------------------
(* Client notifications *)

\* The event enqueueChunkOutput enqueues.
chunkOutputEvent(docId, chunkId) ==
    [type |-> "chunk_output",
     url |-> [prefix |-> kChunkOutputPath, doc |-> docId, chunk |-> chunkId, ext |-> ".html"],
     chunk_id |-> chunkId, doc_id |-> docId]

enqueueChunkOutput(queue, docPath, docId, chunkId) ==
    Append(queue, chunkOutputEvent(docId, chunkId))

chunkOutputFinishedEvent(docPath, requestId) ==
    [type |-> "chunk_output_finished", path |-> docPath, request_id |-> requestId]

---------------------------------------------------------------------------
(* Execute chunk *)

executeInlineChunkNotifiesFirst(dsk, queue, docPath, docId, chunkId, io, assets) ==
    LET folder == chunkCacheFolder(docPath, docId)
        made == ensureDirectory(dsk, folder)
        withLib == [made EXCEPT ![folder].lib = TRUE]
        rendered == [withLib EXCEPT ![folder].html = @ \cup {chunkId},
                                    ![folder].files = IF assets THEN @ \cup {chunkId} ELSE @]
        notified == enqueueChunkOutput(queue, docPath, docId, chunkId)
    IN  IF io = "bad_params"
        THEN [disk |-> dsk, events |-> queue, error |-> "ParamInvalid"]
        ELSE IF ~dsk[folder].exists /\ io = "mkdir_fails"
        THEN [disk |-> dsk, events |-> queue, error |-> "IOError"]
        ELSE IF ~made[folder].lib /\ io = "libdir_fails"
        THEN [disk |-> made, events |-> queue, error |-> "IOError"]
        ELSE IF io = "render_fails"
        THEN [disk |-> withLib, events |-> notified, error |-> "ExecutionError"]
        ELSE [disk |-> rendered, events |-> notified, error |-> Success]

\* io: "ok", "bad_params", "mkdir_fails", "libdir_fails" or "render_fails";
\* assets: whether the render backend leaves a <chunkId>_files directory.
executeInlineChunk(dsk, queue, docPath, docId, chunkId, io, assets) ==
    LET folder == chunkCacheFolder(docPath, docId)
        made == ensureDirectory(dsk, folder)
        withLib == [made EXCEPT ![folder].lib = TRUE]
        rendered == [withLib EXCEPT ![folder].html = @ \cup {chunkId},
                                    ![folder].files = IF assets THEN @ \cup {chunkId} ELSE @]
    IN  IF io = "bad_params"
        THEN [disk |-> dsk, events |-> queue, error |-> "ParamInvalid"]
        ELSE IF ~dsk[folder].exists /\ io = "mkdir_fails"
        THEN [disk |-> dsk, events |-> queue, error |-> "IOError"]
        ELSE IF ~made[folder].lib /\ io = "libdir_fails"
        THEN [disk |-> made, events |-> queue, error |-> "IOError"]
        ELSE IF io = "render_fails"
        THEN [disk |-> withLib, events |-> queue, error |-> "ExecutionError"]
        ELSE [disk |-> rendered,
              events |-> enqueueChunkOutput(queue, docPath, docId, chunkId),
              error |-> Success]

---------------------------------------------------------------------------
(* Refresh and replay *)

RECURSIVE enqueueAll(_, _, _, _)
enqueueAll(queue, docPath, docId, chunkIds) ==
    IF chunkIds = <<>> THEN queue
    ELSE enqueueAll(enqueueChunkOutput(queue, docPath, docId, Head(chunkIds)),
                    docPath, docId, Tail(chunkIds))

replayChunkOutputsEndFirst(queue, docPath, docId, requestId, chunkOutputs) ==
    enqueueAll(Append(queue, chunkOutputFinishedEvent(docPath, requestId)),
               docPath, docId, extractChunkIds(chunkOutputs))

replayChunkOutputs(queue, docPath, docId, requestId, chunkOutputs) ==
    Append(enqueueAll(queue, docPath, docId, extractChunkIds(chunkOutputs)),
           chunkOutputFinishedEvent(docPath, requestId))

\* The delayed work refreshChunkOutput schedules, and its result.
refreshChunkOutput(dsk, work, docPath, docId, requestId, io) ==
    LET chunkDefs == getChunkDefs(dsk, docPath, docId)
    IN  IF io = "bad_params"
        THEN [delayed |-> work, error |-> "ParamInvalid"]
        ELSE IF chunkDefs.error = Success /\ chunkDefs.defs.t = "array"
        THEN [delayed |-> Append(work, [docPath |-> docPath, docId |-> docId,
                                        requestId |-> requestId,
                                        chunkOutputs |-> chunkDefs.defs.arr]),
              error |-> Success]
        ELSE [delayed |-> work, error |-> Success]

---------------------------------------------------------------------------
(* Migration handler *)

\* The entries FilePath::childrenRecursive visits in a cache folder; a
\* directory stands for itself and the files below it.
children(dir) ==
    (IF dir.chunks_json = NoFile THEN {}
     ELSE {[name |-> "chunks.json", isDirectory |-> FALSE, content |-> dir.chunks_json]})
    \cup {[name |-> "html", id |-> id, isDirectory |-> FALSE] : id \in dir.html}
    \cup {[name |-> "_files", id |-> id, isDirectory |-> TRUE] : id \in dir.files}
    \cup (IF dir.lib THEN {[name |-> kChunkLibDir, isDirectory |-> TRUE]} ELSE {})

copyCacheItemFilesOnly(to, path) ==
    IF path.isDirectory THEN to
    ELSE IF path.name = "chunks.json"
         THEN [to EXCEPT !.chunks_json = path.content]
         ELSE [to EXCEPT !.html = @ \cup {path.id}]

\* The target folder after one entry is copied: a directory is ensured, a
\* file is copied.
copyCacheItem(to, path) ==
    IF path.isDirectory
    THEN IF path.name = kChunkLibDir
         THEN [to EXCEPT !.lib = TRUE]
         ELSE [to EXCEPT !.files = @ \cup {path.id}]
    ELSE IF path.name = "chunks.json"
         THEN [to EXCEPT !.chunks_json = path.content]
         ELSE [to EXCEPT !.html = @ \cup {path.id}]

RECURSIVE copyItems(_, _)
copyItems(to, paths) ==
    IF paths = {} THEN to
    ELSE LET path == CHOOSE x \in paths : TRUE
         IN  copyItems(copyCacheItem(to, path), paths \ {path})

copyCacheDirOnly(dsk, from, to) == ensureDirectory(dsk, to)

copyCache(dsk, from, to) ==
    LET made == ensureDirectory(dsk, to)
    IN  [made EXCEPT ![to] = copyItems(@, children(dsk[from]))]

moveKeepsSource(dsk, from, to) == [dsk EXCEPT ![to] = dsk[from]]

\* FilePath::move: the folder is renamed.
move(dsk, from, to) ==
    [dsk EXCEPT ![to] = dsk[from], ![from] = NoDir]

onDocRemovedKeeps(dsk, docId) == dsk

onDocRemoved(dsk, docId) ==
    [dsk EXCEPT ![chunkCacheFolder(EmptyPath, docId)] = NoDir]

onDocRenamedOverwrites(dsk, oldPath, newPath, docId) ==
    LET oldCacheDir == chunkCacheFolder(oldPath, docId)
        newCacheDir == chunkCacheFolder(newPath, docId)
    IN  IF ~dsk[oldCacheDir].exists THEN dsk
        ELSE IF oldPath = EmptyPath THEN move(dsk, oldCacheDir, newCacheDir)
        ELSE copyCache(dsk, oldCacheDir, newCacheDir)

onDocRenamed(dsk, oldPath, newPath, docId) ==
    LET oldCacheDir == chunkCacheFolder(oldPath, docId)
        newCacheDir == chunkCacheFolder(newPath, docId)
    IN  IF ~dsk[oldCacheDir].exists \/ dsk[newCacheDir].exists THEN dsk
        ELSE IF oldPath = EmptyPath THEN move(dsk, oldCacheDir, newCacheDir)
        ELSE copyCache(dsk, oldCacheDir, newCacheDir)

---------------------------------------------------------------------------
(* Output server *)

\* A request URI split at "/": "/chunk_output/<docId>/<rest...>" gives a
\* leading empty part, the prefix, the document id and the rest.
Uris ==
    UNION { { <<"", kChunkOutputPath, d, kChunkLibDir, "x.js">>,
              <<"", kChunkOutputPath, d, "a.html">>,
              <<"", kChunkOutputPath, d>> } : d \in DocIds }

handleChunkOutputRequestNoCache(db, uri) ==
    LET parts == uri
        docId == parts[3]
        rest == SubSeq(parts, 4, Len(parts))
        path == db[docId]
    IN  IF Len(parts) < 4
        THEN [error |-> Success, file |-> NoFile, cacheable |-> FALSE, noCache |-> FALSE]
        ELSE IF docId \notin DOMAIN db \/ path = NotOpen
        THEN [error |-> "NotFound", file |-> NoFile, cacheable |-> FALSE, noCache |-> FALSE]
        ELSE [error |-> Success,
              file |-> [t |-> "file", folder |-> chunkCacheFolder(path, docId), rel |-> rest],
              cacheable |-> FALSE, noCache |-> TRUE]

handleChunkOutputRequest(db, uri) ==
    LET parts == uri
        docId == parts[3]
        rest == SubSeq(parts, 4, Len(parts))
        path == db[docId]
    IN  IF Len(parts) < 4
        THEN [error |-> Success, file |-> NoFile, cacheable |-> FALSE, noCache |-> FALSE]
        ELSE IF docId \notin DOMAIN db \/ path = NotOpen
        THEN [error |-> "NotFound", file |-> NoFile, cacheable |-> FALSE, noCache |-> FALSE]
        ELSE IF rest[1] = kChunkLibDir
        THEN [error |-> Success,
              file |-> [t |-> "file", folder |-> chunkCacheFolder(path, docId), rel |-> rest],
              cacheable |-> TRUE, noCache |-> FALSE]
        ELSE [error |-> Success,
              file |-> [t |-> "file", folder |-> chunkCacheFolder(path, docId), rel |-> rest],
              cacheable |-> FALSE, noCache |-> TRUE]

---------------------------------------------------------------------------
(* State machine *)

Idle == [pc |-> "idle"]

\* The documents of a session are open, each unsaved or at its own path.
HomePath(d) == IF d = "d1" THEN MkPath("/p", "foo", ".Rmd") ELSE MkPath("/p", "bar", ".Rmd")

InitDb == {db \in [DocIds -> Paths] : \A d \in DocIds : db[d] \in {EmptyPath, HomePath(d)}}

NoCall == [op |-> "none", error |-> Success]

Init ==
    /\ sourceDb \in InitDb
    /\ disk = [f \in Folders |-> NoDir]
    /\ events = <<>>
    /\ delayed = <<>>
    /\ writer = Idle
    /\ last = NoCall
    /\ ops = 0

IsOpen(d) == sourceDb[d] # NotOpen

Count == ops < MaxOps /\ ops' = ops + 1

\* The failures that can happen to a call on this folder.
ExecuteIo(folder) ==
    {"ok", "bad_params", "render_fails"}
    \cup (IF disk[folder].exists THEN {} ELSE {"mkdir_fails"})
    \cup (IF disk[folder].lib THEN {} ELSE {"libdir_fails"})

SetIo(folder) ==
    {"ok", "write_fails"} \cup (IF disk[folder].exists THEN {} ELSE {"mkdir_fails"})

ExecuteInlineChunk(d, chunkId, io, assets) ==
    /\ IsOpen(d) /\ Count
    /\ io \in ExecuteIo(chunkCacheFolder(sourceDb[d], d))
    /\ LET r == executeInlineChunk(disk, events, sourceDb[d], d, chunkId, io, assets)
       IN  /\ disk' = r.disk
           /\ events' = r.events
           /\ last' = [op |-> "executeInlineChunk", docPath |-> sourceDb[d], docId |-> d,
                       chunkId |-> chunkId, io |-> io, error |-> r.error, pre |-> disk,
                       queue |-> events]
    /\ UNCHANGED <<sourceDb, delayed, writer>>

\* Whether the call before this one was the same setChunkDefs call, and succeeded.
Repeats(docPath, docId, newDefs) ==
    /\ last.op = "setChunkDefs" /\ last.error = Success
    /\ last.docPath = docPath /\ last.docId = docId /\ last.newDefs = newDefs

SetChunkDefs(d, newDefs, io) ==
    /\ IsOpen(d) /\ Count
    /\ io \in SetIo(chunkCacheFolder(sourceDb[d], d))
    /\ LET r == setChunkDefs(disk, sourceDb[d], d, newDefs, io)
       IN  /\ disk' = r.disk
           /\ last' = [op |-> "setChunkDefs", docPath |-> sourceDb[d], docId |-> d,
                       newDefs |-> newDefs, io |-> io, error |-> r.error, pre |-> disk,
                       repeats |-> Repeats(sourceDb[d], d, newDefs)]
    /\ UNCHANGED <<sourceDb, events, delayed, writer>>

RefreshChunkOutput(d, requestId, io) ==
    /\ IsOpen(d) /\ Count
    /\ LET r == refreshChunkOutput(disk, delayed, sourceDb[d], d, requestId, io)
       IN  /\ delayed' = r.delayed
           /\ last' = [op |-> "refreshChunkOutput", docPath |-> sourceDb[d], docId |-> d,
                       requestId |-> requestId, io |-> io, error |-> r.error, pre |-> disk]
    /\ UNCHANGED <<sourceDb, disk, events, writer>>

\* The scheduler runs the oldest delayed work.
ReplayChunkOutputs ==
    /\ delayed # <<>>
    /\ LET work == Head(delayed)
       IN  /\ events' = replayChunkOutputs(events, work.docPath, work.docId,
                                           work.requestId, work.chunkOutputs)
           /\ last' = [op |-> "replayChunkOutputs", docPath |-> work.docPath,
                       docId |-> work.docId, requestId |-> work.requestId,
                       chunkOutputs |-> work.chunkOutputs, error |-> Success, pre |-> disk,
                       queue |-> events]
    /\ delayed' = Tail(delayed)
    /\ UNCHANGED <<sourceDb, disk, writer, ops>>

\* The source database renames (or first saves) a document and notifies.
DocRenamed(d, newPath) ==
    /\ IsOpen(d) /\ Count
    /\ newPath # sourceDb[d]
    /\ \A e \in DocIds : sourceDb[e] # newPath
    /\ sourceDb' = [sourceDb EXCEPT ![d] = newPath]
    /\ disk' = onDocRenamed(disk, sourceDb[d], newPath, d)
    /\ last' = [op |-> "onDocRenamed", oldPath |-> sourceDb[d], docPath |-> newPath,
                docId |-> d, error |-> Success, pre |-> disk, again |-> FALSE]
    /\ UNCHANGED <<events, delayed, writer>>

\* The rename notification just handled is delivered a second time.
DocRenamedAgain ==
    /\ last.op = "onDocRenamed" /\ Count
    /\ disk' = onDocRenamed(disk, last.oldPath, last.docPath, last.docId)
    /\ last' = [last EXCEPT !.pre = disk, !.again = TRUE]
    /\ UNCHANGED <<sourceDb, events, delayed, writer>>

\* The source database removes a closed document and notifies.
DocRemoved(d) ==
    /\ IsOpen(d) /\ Count
    /\ sourceDb' = [sourceDb EXCEPT ![d] = NotOpen]
    /\ disk' = onDocRemoved(disk, d)
    /\ last' = [op |-> "onDocRemoved", docPath |-> sourceDb[d], docId |-> d,
                error |-> Success, pre |-> disk]
    /\ UNCHANGED <<events, delayed, writer>>

HandleChunkOutputRequest(uri) ==
    /\ Count
    /\ LET r == handleChunkOutputRequest(sourceDb, uri)
       IN  last' = [op |-> "handleChunkOutputRequest", uri |-> uri, error |-> r.error,
                    response |-> r, pre |-> disk]
    /\ UNCHANGED <<sourceDb, disk, events, delayed, writer>>

Next ==
    \/ \E d \in DocIds, chunkId \in DocChunkIds, io \in {"ok", "render_fails"}, assets \in BOOLEAN :
          (io = "ok" \/ ~assets) /\ ExecuteInlineChunk(d, chunkId, io, assets)
    \/ \E d \in DocIds, newDefs \in DocDefSeqs, io \in {"ok", "write_fails"} :
          SetChunkDefs(d, newDefs, io)
    \/ \E d \in DocIds, newPath \in SavedPaths : DocRenamed(d, newPath)
    \/ \E d \in DocIds : DocRemoved(d)
    \/ DocRenamedAgain

Spec == Init /\ [][Next]_vars

---------------------------------------------------------------------------
(* Properties of a session (Spec) *)

\* The chunk ids of the definition set persisted in a cache folder (none when
\* there is no sidecar or it does not load).
PersistedIds(dir) ==
    LET r == readChunkDefs(dir.chunks_json)
    IN  IF r.error = Success /\ r.defs.t = "array"
        THEN Range(extractChunkIds(r.defs.arr)) ELSE {}

\* The artifacts of a folder whose chunk id its persisted set does not list.
Stale(dir) == dir.html \ PersistedIds(dir)

HasPersistedSet(dir) ==
    LET r == readChunkDefs(dir.chunks_json)
    IN  r.error = Success /\ r.defs.t = "array"

OpenDocs == {d \in DocIds : sourceDb[d] # NotOpen}

FolderOf(d) == chunkCacheFolder(sourceDb[d], d)

\* C3 as stated: once a definition set has been persisted for an open
\* document, every <chunk_id>.html in its cache folder belongs to a chunk_id of
\* the persisted set.
C3_NoStaleArtifact ==
    \A d \in OpenDocs :
        HasPersistedSet(disk[FolderOf(d)]) => Stale(disk[FolderOf(d)]) = {}

\* C3, amended: an artifact outside the persisted set of its folder gets there
\* only by an execute-chunk call for that chunk id, or comes along with a
\* renamed folder; setChunkDefs, rename and close never add one.
C3_StaleOnlyByExecute ==
    \A f \in Folders :
        CASE last.op = "none" -> Stale(disk[f]) = {}
          [] last.op = "executeInlineChunk" ->
                Stale(disk[f]) \subseteq
                    Stale(last.pre[f]) \cup
                    (IF f = chunkCacheFolder(last.docPath, last.docId)
                     THEN {last.chunkId} ELSE {})
          [] last.op = "onDocRenamed" ->
                Stale(disk[f]) \subseteq
                    Stale(last.pre[f]) \cup
                    (IF f = chunkCacheFolder(last.docPath, last.docId)
                     THEN Stale(last.pre[chunkCacheFolder(last.oldPath, last.docId)])
                     ELSE {})
          [] OTHER -> Stale(disk[f]) \subseteq Stale(last.pre[f])

\* A setChunkDefs call has just removed the artifact of a chunk that the
\* replaced set listed and the new one does not.
C3_Witness ==
    /\ last.op = "setChunkDefs" /\ last.error = Success
    /\ LET f == chunkCacheFolder(last.docPath, last.docId)
       IN  /\ HasPersistedSet(last.pre[f])
           /\ last.pre[f].html \ disk[f].html # {}
           /\ Stale(disk[f]) = {}

\* C4 as stated: two open documents with different ids never have the same
\* cache folder.
C4_DistinctFolders ==
    \A d, e \in OpenDocs : d # e => FolderOf(d) # FolderOf(e)

\* The cache folder of the document the last call was about.
CalledFolder == chunkCacheFolder(last.docPath, last.docId)

RenamedOld == chunkCacheFolder(last.oldPath, last.docId)

RenamedNew == chunkCacheFolder(last.docPath, last.docId)

\* C9 as stated: after the rename of a previously unsaved document whose
\* cache folder existed, the unsaved folder is gone and the new folder holds
\* exactly what the old one held.
C9_RenameMoves ==
    (last.op = "onDocRenamed" /\ last.oldPath = EmptyPath /\ last.pre[RenamedOld].exists)
        => /\ ~disk[RenamedOld].exists
           /\ disk[RenamedNew] = last.pre[RenamedOld]

\* C9, amended: the same, provided no cache folder existed at the new path
\* before the rename.
C9_RenameMovesIfFree ==
    (/\ last.op = "onDocRenamed" /\ last.oldPath = EmptyPath
     /\ last.pre[RenamedOld].exists /\ ~last.pre[RenamedNew].exists)
        => /\ ~disk[RenamedOld].exists
           /\ disk[RenamedNew] = last.pre[RenamedOld]
           /\ \A f \in Folders \ {RenamedOld, RenamedNew} : disk[f] = last.pre[f]

\* An unsaved document with a sidecar and an artifact has just been saved to
\* a path with no cache folder.
C9_Witness ==
    /\ last.op = "onDocRenamed" /\ last.oldPath = EmptyPath
    /\ last.pre[RenamedOld].exists /\ ~last.pre[RenamedNew].exists
    /\ last.pre[RenamedOld].html # {}
    /\ last.pre[RenamedOld].chunks_json # NoFile

\* C10 as stated: after the rename of a previously saved document whose cache
\* folder existed, the old and the new folder both exist, the new one holds
\* what the old one holds, and the old one is unchanged.
C10_RenameCopies ==
    (last.op = "onDocRenamed" /\ last.oldPath # EmptyPath /\ last.pre[RenamedOld].exists)
        => /\ disk[RenamedOld].exists /\ disk[RenamedNew].exists
           /\ disk[RenamedNew] = disk[RenamedOld]
           /\ disk[RenamedOld] = last.pre[RenamedOld]

\* C10, amended: the same, provided no cache folder existed at the new path
\* before the rename.
C10_RenameCopiesIfFree ==
    (/\ last.op = "onDocRenamed" /\ last.oldPath # EmptyPath
     /\ last.pre[RenamedOld].exists /\ ~last.pre[RenamedNew].exists)
        => /\ disk[RenamedOld].exists /\ disk[RenamedNew].exists
           /\ disk[RenamedNew] = disk[RenamedOld]
           /\ disk[RenamedOld] = last.pre[RenamedOld]

\* A saved document with a sidecar, an artifact, an asset directory and lib
\* has just been renamed to a path with no cache folder.
C10_Witness ==
    /\ last.op = "onDocRenamed" /\ last.oldPath # EmptyPath
    /\ last.pre[RenamedOld].exists /\ ~last.pre[RenamedNew].exists
    /\ last.pre[RenamedOld].files # {}
    /\ last.pre[RenamedOld].lib
    /\ last.pre[RenamedOld].chunks_json # NoFile

\* C11: a rename notification that finds no old cache folder, or finds a cache
\* folder at the new path, changes nothing on disk; and the same notification
\* delivered a second time changes nothing.
C11_RenameNoOverwrite ==
    /\ (/\ last.op = "onDocRenamed"
        /\ (~last.pre[RenamedOld].exists \/ last.pre[RenamedNew].exists))
           => disk = last.pre
    /\ (last.op = "onDocRenamed" /\ last.again) => disk = last.pre

\* A rename has found a cache folder with other contents at the new path.
C11_Witness ==
    /\ last.op = "onDocRenamed" /\ ~last.again
    /\ last.pre[RenamedOld].exists /\ last.pre[RenamedNew].exists
    /\ last.pre[RenamedOld] # last.pre[RenamedNew]

\* A rename that copied a folder with an artifact has been delivered again.
RenamedAgainAfterCopy ==
    /\ last.op = "onDocRenamed" /\ last.again /\ last.oldPath # EmptyPath
    /\ disk[RenamedNew].exists /\ disk[RenamedNew].html # {}

\* C12: after the close of an unsaved document its cache folder does not
\* exist; after the close of a saved document the cache folder derived from
\* its path exists and holds what it did before.
C12_CloseCleanup ==
    last.op = "onDocRemoved" =>
        /\ last.docPath = EmptyPath => ~disk[CalledFolder].exists
        /\ last.docPath # EmptyPath => disk[CalledFolder] = last.pre[CalledFolder]

\* An unsaved document whose cache folder held an artifact has been closed.
C12_Witness ==
    /\ last.op = "onDocRemoved" /\ last.docPath = EmptyPath
    /\ last.pre[CalledFolder].exists /\ last.pre[CalledFolder].html # {}

\* A saved document whose cache folder held an artifact has been closed.
ClosedSaved ==
    /\ last.op = "onDocRemoved" /\ last.docPath # EmptyPath
    /\ last.pre[CalledFolder].exists /\ last.pre[CalledFolder].html # {}

---------------------------------------------------------------------------
(* Requests to the output server (SpecServe) *)

\* Documents are renamed and closed, and chunk output is requested.
NextServe ==
    \/ \E d \in DocIds, newPath \in SavedPaths : DocRenamed(d, newPath)
    \/ \E d \in DocIds : DocRemoved(d)
    \/ \E uri \in Uris : HandleChunkOutputRequest(uri)

SpecServe == Init /\ [][NextServe]_vars

\* C14: a request with fewer than four parts succeeds with no file; a request
\* for a document that is not open fails with no file; any other request
\* succeeds with the file at its relative path in the cache folder of the
\* document's current path, cacheable exactly when the relative path starts
\* with lib and marked no-cache otherwise.
C14_RoutePolicy ==
    last.op = "handleChunkOutputRequest" =>
        LET uri == last.uri
            r == last.response
        IN  IF Len(uri) < 4
            THEN r.error = Success /\ r.file = NoFile /\ ~r.cacheable /\ ~r.noCache
            ELSE IF sourceDb[uri[3]] = NotOpen
            THEN r.error # Success /\ r.file = NoFile /\ ~r.cacheable /\ ~r.noCache
            ELSE /\ r.error = Success
                 /\ r.cacheable <=> (uri[4] = kChunkLibDir)
                 /\ r.noCache <=> (uri[4] # kChunkLibDir)
                 /\ r.file.folder = FolderOf(uri[3])
                 /\ r.file.rel = SubSeq(uri, 4, Len(uri))

\* A file under lib has been requested for a document renamed to another stem.
C14_Witness ==
    /\ last.op = "handleChunkOutputRequest" /\ Len(last.uri) > 4
    /\ last.uri[4] = kChunkLibDir /\ last.response.cacheable
    /\ sourceDb[last.uri[3]] \notin {EmptyPath, NotOpen, HomePath(last.uri[3])}

\* A chunk's html has been requested for an open document.
ServedChunkHtml ==
    /\ last.op = "handleChunkOutputRequest" /\ last.response.noCache

\* Chunk output has been requested for a closed document.
ServedNotFound ==
    /\ last.op = "handleChunkOutputRequest" /\ last.response.error = "NotFound"

\* A request with too few parts has been made.
ServedNothing ==
    /\ last.op = "handleChunkOutputRequest" /\ Len(last.uri) < 4

---------------------------------------------------------------------------
(* setChunkDefs on one cache folder (SpecReconcile) *)

\* The document whose definitions are replaced: unsaved, with id "d1".
TheDoc == "d1"

TheFolder == chunkCacheFolder(EmptyPath, TheDoc)

\* What the sidecar may hold before the call: nothing, a persisted set, or
\* text that does not load as a definition set.
OldSidecars ==
    {NoFile, Garbage,
     JsonWrite(JsonArray(<<>>)),
     JsonWrite(JsonObject1("other", JsonArray(<<>>))),
     JsonWrite(JsonObject1(kChunkDefs, JsonNull))}
    \cup {sidecarText(oldDefs) : oldDefs \in DefSeqs}

\* The cache folder before the call: any sidecar, and for every chunk id no
\* artifact, its html, or its html and asset directory (lib comes with the
\* first rendered chunk).
OldFolders ==
    {[exists |-> (sidecar # NoFile \/ html # {}), chunks_json |-> sidecar,
      html |-> html, files |-> files, lib |-> (html # {})] :
        sidecar \in OldSidecars,
        html \in SUBSET ChunkIds, files \in SUBSET ChunkIds}

InitReconcile ==
    /\ sourceDb = [d \in DocIds |-> IF d = TheDoc THEN EmptyPath ELSE NotOpen]
    /\ \E dir \in {o \in OldFolders : o.files \subseteq o.html} :
          disk = [f \in Folders |-> IF f = TheFolder THEN dir ELSE NoDir]
    /\ events = <<>>
    /\ delayed = <<>>
    /\ writer = Idle
    /\ last = NoCall
    /\ ops = 0

\* setChunkDefs is called with any definition sequence, and then once more
\* with the same one.
NextReconcile ==
    \/ \E newDefs \in DefSeqs, io \in {"ok", "mkdir_fails", "write_fails"} :
          ops = 0 /\ SetChunkDefs(TheDoc, newDefs, io)
    \/ ops = 1 /\ last.op = "setChunkDefs" /\ SetChunkDefs(TheDoc, last.newDefs, "ok")

SpecReconcile == InitReconcile /\ [][NextReconcile]_vars

NewIds == Range(extractChunkIds(last.newDefs))

OldIds == PersistedIds(last.pre[CalledFolder])

\* C1 as stated: setChunkDefs removes neither <id>.html nor <id>_files of a
\* chunk id that occurs in the new definition sequence.
C1_KeepsNewIds ==
    last.op = "setChunkDefs" =>
        \A id \in NewIds :
            /\ id \in last.pre[CalledFolder].html => id \in disk[CalledFolder].html
            /\ id \in last.pre[CalledFolder].files => id \in disk[CalledFolder].files

\* C2 as stated: when the old set loads, after setChunkDefs the ids only in the
\* old set have no html and no asset directory, the artifacts of the ids in
\* both sets are as before, and no artifact exists that did not exist before.
C2_Reconciled ==
    (last.op = "setChunkDefs" /\ last.error = Success /\ HasPersistedSet(last.pre[CalledFolder])) =>
        /\ \A id \in OldIds \ NewIds :
              id \notin disk[CalledFolder].html /\ id \notin disk[CalledFolder].files
        /\ \A id \in OldIds \cap NewIds :
              /\ id \in disk[CalledFolder].html <=> id \in last.pre[CalledFolder].html
              /\ id \in disk[CalledFolder].files <=> id \in last.pre[CalledFolder].files
        /\ disk[CalledFolder].html \subseteq last.pre[CalledFolder].html
        /\ disk[CalledFolder].files \subseteq last.pre[CalledFolder].files

\* C7: after a successful setChunkDefs, getChunkDefs succeeds and returns the
\* sequence that was set, entry for entry.
C7_RoundTrip ==
    (last.op = "setChunkDefs" /\ last.error = Success) =>
        getChunkDefs(disk, last.docPath, last.docId)
            = [error |-> Success, defs |-> JsonArray(last.newDefs)]

\* A sequence with a chunk definition and an entry without chunk_id has been
\* set over a sidecar that held something else.
C7_Witness ==
    /\ last.op = "setChunkDefs" /\ last.error = Success
    /\ DefNoId \in Range(last.newDefs)
    /\ \E id \in ChunkIds : ChunkDef(id, "1") \in Range(last.newDefs)
    /\ last.pre[CalledFolder].chunks_json \notin {NoFile, sidecarText(last.newDefs)}

\* C8: a successful setChunkDefs call that repeats the successful call before
\* it leaves every cache folder, sidecar included, as that call left it.
C8_Idempotent ==
    (last.op = "setChunkDefs" /\ last.error = Success /\ last.repeats) =>
        disk = last.pre

\* A call that lists a chunk with an artifact on disk has been repeated.
C8_Witness ==
    /\ last.op = "setChunkDefs" /\ last.error = Success /\ last.repeats
    /\ NewIds \cap disk[CalledFolder].html # {}
    /\ disk[CalledFolder].html \ NewIds # {}

\* C15: when the sidecar is present and does not load, a setChunkDefs call
\* whose write succeeds removes no artifact and no directory, returns success
\* and leaves a sidecar from which getChunkDefs returns the new sequence.
C15_LoadFailureNonFatal ==
    (/\ last.op = "setChunkDefs" /\ last.io = "ok"
     /\ last.pre[CalledFolder].chunks_json # NoFile
     /\ readChunkDefs(last.pre[CalledFolder].chunks_json).error # Success)
        => /\ last.error = Success
           /\ disk[CalledFolder].html = last.pre[CalledFolder].html
           /\ disk[CalledFolder].files = last.pre[CalledFolder].files
           /\ disk[CalledFolder].lib = last.pre[CalledFolder].lib
           /\ disk[CalledFolder].chunks_json = sidecarText(last.newDefs)
           /\ getChunkDefs(disk, last.docPath, last.docId)
                  = [error |-> Success, defs |-> JsonArray(last.newDefs)]

\* A set without chunk "a" has been written over a sidecar that does not
\* parse, in a folder that holds the artifacts of "a".
C15_Witness ==
    /\ last.op = "setChunkDefs" /\ last.io = "ok"
    /\ last.pre[CalledFolder].chunks_json = Garbage
    /\ "a" \in last.pre[CalledFolder].html /\ "a" \in last.pre[CalledFolder].files
    /\ "a" \notin NewIds

\* The ids cleanChunks takes as stale in the last setChunkDefs call: none when
\* the old set did not load.
StaleInCall ==
    LET old == readChunkDefs(last.pre[CalledFolder].chunks_json)
    IN  IF old.error = Success /\ old.defs.t = "array"
        THEN Range(staleIdsOf(old.defs.arr, last.newDefs))
        ELSE {}

\* C18: setChunkDefs removes from the cache folder only the html and the asset
\* directory of ids its cleanup takes as stale, all of them ids of the old
\* set; lib stays, a sidecar is never removed and changes only when the write
\* succeeds, and no other folder changes.
C18_ReconcilerFrame ==
    last.op = "setChunkDefs" =>
        /\ disk[CalledFolder].html \subseteq last.pre[CalledFolder].html
        /\ disk[CalledFolder].files \subseteq last.pre[CalledFolder].files
        /\ (last.pre[CalledFolder].html \ disk[CalledFolder].html) \subseteq StaleInCall
        /\ (last.pre[CalledFolder].files \ disk[CalledFolder].files) \subseteq StaleInCall
        /\ StaleInCall \subseteq OldIds
        /\ disk[CalledFolder].lib = last.pre[CalledFolder].lib
        /\ last.pre[CalledFolder].chunks_json # NoFile => disk[CalledFolder].chunks_json # NoFile
        /\ last.error # Success =>
               disk[CalledFolder].chunks_json = last.pre[CalledFolder].chunks_json
        /\ disk[CalledFolder].chunks_json
               \in {last.pre[CalledFolder].chunks_json, sidecarText(last.newDefs)}
        /\ \A f \in Folders \ {CalledFolder} : disk[f] = last.pre[f]

\* A call whose write failed has removed the html and the asset directory of a
\* stale chunk from a folder with lib, and kept those of another chunk.
C18_Witness ==
    /\ last.op = "setChunkDefs" /\ last.error # Success
    /\ last.pre[CalledFolder].lib
    /\ \E id \in StaleInCall :
          /\ id \in last.pre[CalledFolder].html \cap last.pre[CalledFolder].files
          /\ id \notin disk[CalledFolder].html \cup disk[CalledFolder].files
    /\ disk[CalledFolder].html # {}

---------------------------------------------------------------------------
(* The sidecar write and a concurrent reader (SpecWrite) *)

InitWrite ==
    /\ sourceDb = [d \in DocIds |-> IF d = TheDoc THEN EmptyPath ELSE NotOpen]
    /\ \E sidecar \in {NoFile} \cup {sidecarText(oldDefs) : oldDefs \in DefSeqs} :
          disk = [f \in Folders |->
                     IF f = TheFolder /\ sidecar # NoFile
                     THEN [EmptyDir EXCEPT !.chunks_json = sidecar] ELSE NoDir]
    /\ events = <<>>
    /\ delayed = <<>>
    /\ writer = Idle
    /\ last = NoCall
    /\ ops = 0

\* setChunkDefs up to the first step of its write.
BeginSetChunkDefs(d, newDefs) ==
    /\ IsOpen(d) /\ Count
    /\ writer = Idle
    /\ LET folder == chunkCacheFolder(sourceDb[d], d)
           cleaned == setChunkDefsClean(disk, sourceDb[d], d, newDefs)
           begun == writeBegin(cleaned, folder, sidecarText(newDefs))
       IN  /\ disk' = begun.disk
           /\ writer' = [pc |-> "writing", docPath |-> sourceDb[d], docId |-> d,
                         newDefs |-> newDefs, temp |-> begun.temp,
                         old |-> cleaned[folder].chunks_json, pre |-> disk]
    /\ UNCHANGED <<sourceDb, events, delayed, last>>

\* The write completes and setChunkDefs returns.
EndSetChunkDefs ==
    /\ writer # Idle
    /\ disk' = writeEnd(disk, chunkCacheFolder(writer.docPath, writer.docId), writer.temp)
    /\ last' = [op |-> "setChunkDefs", docPath |-> writer.docPath, docId |-> writer.docId,
                newDefs |-> writer.newDefs, io |-> "ok", error |-> Success,
                pre |-> writer.pre, repeats |-> FALSE]
    /\ writer' = Idle
    /\ UNCHANGED <<sourceDb, events, delayed, ops>>

\* The write fails part-way and setChunkDefs returns the error.
FailSetChunkDefs ==
    /\ writer # Idle
    /\ last' = [op |-> "setChunkDefs", docPath |-> writer.docPath, docId |-> writer.docId,
                newDefs |-> writer.newDefs, io |-> "write_fails", error |-> "IOError",
                pre |-> writer.pre, repeats |-> FALSE]
    /\ writer' = Idle
    /\ UNCHANGED <<sourceDb, disk, events, delayed, ops>>

\* A reader outside the handler loads the sidecar.
GetChunkDefs(d) ==
    /\ IsOpen(d)
    /\ last' = [op |-> "getChunkDefs", docPath |-> sourceDb[d], docId |-> d,
                error |-> getChunkDefs(disk, sourceDb[d], d).error,
                defs |-> getChunkDefs(disk, sourceDb[d], d).defs,
                seen |-> chunkDefinitionsPath(disk, sourceDb[d], d),
                during |-> writer, pre |-> disk]
    /\ UNCHANGED <<sourceDb, disk, events, delayed, writer, ops>>

NextWrite ==
    \/ \E newDefs \in DefSeqs : ops = 0 /\ BeginSetChunkDefs(TheDoc, newDefs)
    \/ EndSetChunkDefs
    \/ FailSetChunkDefs
    \/ GetChunkDefs(TheDoc)

SpecWrite == InitWrite /\ [][NextWrite]_vars

\* C5: a reader that loads the sidecar while setChunkDefs is writing it sees
\* the complete old or the complete new text, and so does the sidecar while
\* the write is under way and after it failed part-way.
C5_AtomicSidecar ==
    /\ (last.op = "getChunkDefs" /\ last.during # Idle) =>
           last.seen \in {last.during.old, sidecarText(last.during.newDefs)}
    /\ writer # Idle =>
           disk[chunkCacheFolder(writer.docPath, writer.docId)].chunks_json
               \in {writer.old, sidecarText(writer.newDefs)}
    /\ (last.op = "setChunkDefs" /\ last.error # Success) =>
           disk[CalledFolder].chunks_json
               \in {last.pre[CalledFolder].chunks_json, sidecarText(last.newDefs)}

\* A reader has loaded the sidecar while a different text was being written
\* over an existing one.
C5_Witness ==
    /\ last.op = "getChunkDefs" /\ last.during # Idle
    /\ last.during.old # NoFile
    /\ last.during.old # sidecarText(last.during.newDefs)
    /\ last.seen = last.during.old

\* C13 as stated: getChunkDefs on a cache folder without sidecar returns
\* success and an empty array of definitions, and writes nothing.
C13_EmptyState ==
    (last.op = "getChunkDefs" /\ last.seen = NoFile) =>
        /\ last.error = Success
        /\ last.defs = JsonArray(<<>>)
        /\ disk = last.pre

---------------------------------------------------------------------------
(* Refresh requests (SpecRefresh) *)

\* The request ids of successive refresh requests.
RequestOrder == <<"r1", "r2">>

\* Every document has no sidecar or a persisted definition set.
InitRefresh ==
    /\ sourceDb = [d \in DocIds |-> IF d = TheDoc THEN EmptyPath ELSE NotOpen]
    /\ \E sidecar \in {NoFile} \cup {sidecarText(oldDefs) : oldDefs \in DefSeqs} :
          disk = [f \in Folders |->
                     IF f = TheFolder /\ sidecar # NoFile
                     THEN [EmptyDir EXCEPT !.chunks_json = sidecar] ELSE NoDir]
    /\ events = <<>>
    /\ delayed = <<>>
    /\ writer = Idle
    /\ last = NoCall
    /\ ops = 0

NextRefresh ==
    \/ \E io \in {"ok", "bad_params"} :
          /\ ops < Len(RequestOrder)
          /\ RefreshChunkOutput(TheDoc, RequestOrder[ops + 1], io)
    \/ ReplayChunkOutputs

\* The scheduler runs delayed work once its delay has passed.
SpecRefresh == InitRefresh /\ [][NextRefresh]_vars /\ WF_vars(ReplayChunkOutputs)

FinishedEvents(requestId) ==
    {i \in 1..Len(events) :
        events[i].type = "chunk_output_finished" /\ events[i].request_id = requestId}

\* C6 as stated: a well-formed refresh request returns success and is followed
\* by exactly one batch-end notification with its request id.
C6_RefreshEndsBatch ==
    \A requestId \in Range(RequestOrder) :
        (last.op = "refreshChunkOutput" /\ last.io = "ok" /\ last.requestId = requestId)
            ~> (Cardinality(FinishedEvents(requestId)) = 1)

\* Whether a definition entry is an object with a string chunk_id.
WellFormedEntry(entry) ==
    /\ entry.t = "object"
    /\ "chunk_id" \in DOMAIN entry
    /\ entry.chunk_id.t = "string"

\* The events the last replay added to the queue.
Replayed == SubSeq(events, Len(last.queue) + 1, Len(events))

\* C16: a replay adds to the event queue one chunk-output event, with url,
\* chunk id and document id, for each well-formed entry of the definition
\* sequence, in the order of that sequence, and after them, last, the
\* batch-end event with the path and the request id.
C16_ReplayOrder ==
    last.op = "replayChunkOutputs" =>
        LET entries == SelectSeq(last.chunkOutputs, WellFormedEntry)
        IN  /\ SubSeq(events, 1, Len(last.queue)) = last.queue
            /\ Len(Replayed) = Len(entries) + 1
            /\ \A i \in 1..Len(entries) :
                  Replayed[i] = [type |-> "chunk_output",
                                 url |-> [prefix |-> kChunkOutputPath, doc |-> last.docId,
                                          chunk |-> entries[i].chunk_id.v, ext |-> ".html"],
                                 chunk_id |-> entries[i].chunk_id.v,
                                 doc_id |-> last.docId]
            /\ Replayed[Len(Replayed)] = [type |-> "chunk_output_finished",
                                          path |-> last.docPath,
                                          request_id |-> last.requestId]

\* A sequence of two different chunks has been replayed.
C16_Witness ==
    /\ last.op = "replayChunkOutputs"
    /\ Len(last.chunkOutputs) = 2 /\ Len(Replayed) = 3
    /\ Replayed[1].chunk_id # Replayed[2].chunk_id

\* A sequence of a malformed entry and a chunk has been replayed.
ReplayedSkipping ==
    /\ last.op = "replayChunkOutputs"
    /\ Len(last.chunkOutputs) = 2 /\ Len(Replayed) = 2
    /\ ~WellFormedEntry(last.chunkOutputs[1])

---------------------------------------------------------------------------
(* Execute-chunk requests and their failures (SpecExecute) *)

ExecuteFailures == {"ok", "bad_params", "mkdir_fails", "libdir_fails", "render_fails"}

\* Chunks are executed in unsaved and saved documents; a request may be
\* malformed, and each directory creation and the render may fail.
NextExecute ==
    \E d \in DocIds, chunkId \in DocChunkIds, io \in ExecuteFailures, assets \in BOOLEAN :
        (io = "ok" \/ ~assets) /\ ExecuteInlineChunk(d, chunkId, io, assets)

SpecExecute == Init /\ [][NextExecute]_vars

\* C17: an execute-chunk request returns success exactly when nothing failed,
\* and then adds one chunk-output event for its chunk and document to the
\* queue; when anything failed it adds no event; and a request with malformed
\* parameters changes nothing on disk.
C17_ExecuteNotifies ==
    last.op = "executeInlineChunk" =>
        /\ (last.error = Success) <=> (last.io = "ok")
        /\ last.io = "ok" =>
               events = Append(last.queue,
                               [type |-> "chunk_output",
                                url |-> [prefix |-> kChunkOutputPath, doc |-> last.docId,
                                         chunk |-> last.chunkId, ext |-> ".html"],
                                chunk_id |-> last.chunkId, doc_id |-> last.docId])
        /\ last.io # "ok" => events = last.queue
        /\ last.io = "bad_params" => disk = last.pre

\* The render has failed for a chunk after an earlier chunk was notified.
C17_Witness ==
    /\ last.op = "executeInlineChunk" /\ last.io = "render_fails"
    /\ last.queue # <<>>
    /\ disk[CalledFolder].lib

\* A request with malformed parameters has arrived for a document without
\* cache folder.
ExecutedBadParams ==
    /\ last.op = "executeInlineChunk" /\ last.io = "bad_params"
    /\ ~last.pre[CalledFolder].exists

\* The creation of the lib directory has failed in a new cache folder.
ExecutedLibDirFails ==
    /\ last.op = "executeInlineChunk" /\ last.io = "libdir_fails"
    /\ ~last.pre[CalledFolder].exists /\ disk[CalledFolder].exists

---------------------------------------------------------------------------
(* Renames over cache folders already on disk (SpecMigrate) *)

\* What a cache folder left by earlier work holds: the definitions and
\* artifacts of chunk "a", or of chunks "a" and "b".
LeftFolders ==
    {[exists |-> TRUE, chunks_json |-> sidecarText(<<ChunkDef("a", "1")>>),
      html |-> {"a"}, files |-> {}, lib |-> TRUE],
     [exists |-> TRUE, chunks_json |-> sidecarText(<<ChunkDef("a", "1"), ChunkDef("b", "1")>>),
      html |-> {"a", "b"}, files |-> {"b"}, lib |-> TRUE]}

\* The documents are open, unsaved or saved; the folder of an unsaved
\* document and the folder of a saved path may be on disk, the latter also
\* from a document saved there and closed earlier.
InitMigrate ==
    /\ sourceDb \in InitDb
    /\ disk \in [Folders -> {NoDir} \cup LeftFolders]
    /\ \A d \in DocIds :
          sourceDb[d] # EmptyPath => ~disk[chunkCacheFolder(EmptyPath, d)].exists
    /\ events = <<>>
    /\ delayed = <<>>
    /\ writer = Idle
    /\ last = NoCall
    /\ ops = 0

SpecMigrate == InitMigrate /\ [][NextServe]_vars

\* The cache folder the output server resolves for the document of the last
\* call.
ServedFolder ==
    handleChunkOutputRequest(sourceDb, <<"", kChunkOutputPath, last.docId, "a.html">>).file.folder

\* C19 as stated: after the rename of a document whose cache folder held a
\* sidecar and artifacts, getChunkDefs at the new path returns the
\* definitions it returned at the old path, and the folder the output server
\* resolves holds the artifacts the old folder held.
C19_SameCacheAfterRename ==
    (/\ last.op = "onDocRenamed"
     /\ last.pre[RenamedOld].chunks_json # NoFile /\ last.pre[RenamedOld].html # {})
        => /\ getChunkDefs(disk, sourceDb[last.docId], last.docId)
                  = getChunkDefs(last.pre, last.oldPath, last.docId)
           /\ disk[ServedFolder].html = last.pre[RenamedOld].html
           /\ disk[ServedFolder].files = last.pre[RenamedOld].files
           /\ disk[ServedFolder].lib = last.pre[RenamedOld].lib

\* C19, amended: the same, provided no cache folder existed at the new path
\* before the rename.
C19_SameCacheAfterRenameIfFree ==
    (/\ last.op = "onDocRenamed"
     /\ last.pre[RenamedOld].chunks_json # NoFile /\ last.pre[RenamedOld].html # {}
     /\ ~last.pre[RenamedNew].exists)
        => /\ getChunkDefs(disk, sourceDb[last.docId], last.docId)
                  = getChunkDefs(last.pre, last.oldPath, last.docId)
           /\ disk[ServedFolder].html = last.pre[RenamedOld].html
           /\ disk[ServedFolder].files = last.pre[RenamedOld].files
           /\ disk[ServedFolder].lib = last.pre[RenamedOld].lib

\* A saved document with two chunks and an asset directory has been renamed
\* to a path with no cache folder.
C19_Witness ==
    /\ last.op = "onDocRenamed" /\ last.oldPath # EmptyPath
    /\ last.pre[RenamedOld].html = {"a", "b"}
    /\ ~last.pre[RenamedNew].exists
    /\ ServedFolder = RenamedNew

---------------------------------------------------------------------------
(* A delayed replay among later calls (SpecReplay) *)

\* An unsaved document whose cache folder holds definitions and artifacts.
InitReplay ==
    /\ sourceDb = [d \in DocIds |-> IF d = TheDoc THEN EmptyPath ELSE NotOpen]
    /\ \E dir \in LeftFolders :
          disk = [f \in Folders |-> IF f = TheFolder THEN dir ELSE NoDir]
    /\ events = <<>>
    /\ delayed = <<>>
    /\ writer = Idle
    /\ last = NoCall
    /\ ops = 0

\* A refresh is requested; before its replay runs, definitions may be set, a
\* chunk executed, and the document saved or closed.
NextReplay ==
    \/ \E requestId \in Range(RequestOrder) : RefreshChunkOutput(TheDoc, requestId, "ok")
    \/ ReplayChunkOutputs
    \/ \E newDefs \in DocDefSeqs : SetChunkDefs(TheDoc, newDefs, "ok")
    \/ \E chunkId \in DocChunkIds : ExecuteInlineChunk(TheDoc, chunkId, "ok", FALSE)
    \/ \E newPath \in SavedPaths : DocRenamed(TheDoc, newPath)
    \/ DocRemoved(TheDoc)

SpecReplay == InitReplay /\ [][NextReplay]_vars

\* C20 as stated: every chunk-output event a replay emits names a chunk id of
\* the definitions captured by its refresh request, and when it is emitted
\* the document is open and <chunk id>.html exists in the cache folder the
\* output server resolves for it.
C20_ReplayedArtifactsExist ==
    last.op = "replayChunkOutputs" =>
        \A i \in 1..Len(Replayed) :
            Replayed[i].type = "chunk_output" =>
                /\ Replayed[i].chunk_id \in Range(extractChunkIds(last.chunkOutputs))
                /\ sourceDb[last.docId] # NotOpen
                /\ Replayed[i].chunk_id \in disk[ServedFolder].html

====
